---- MODULE Spec2Model ----
(***************************************************************************)
(* Model of "Test Cached Engines.pushbutton/script.py": a Python 2         *)
(* (IronPython) script that prints the keys of the host's engine           *)
(* registry, prints whether the run reused a cached engine, and prints     *)
(* the list returned by the host's output manager.                         *)
(*                                                                         *)
(* The program counter pc names the source line about to execute.  The     *)
(* host's objects (EngineDict, cachedengine, outputs) and the set of host  *)
(* bindings that resolve (avail) are chosen in Init; the script's steps    *)
(* are the actions.  stdout is the sequence of print operations, each the  *)
(* text one print wrote.  count, reads and calls record what ran.          *)
(***************************************************************************)
EXTENDS Integers, Sequences, FiniteSets, TLC

VARIABLES
    EngineDict,    \* EXEC_PARAMS.engine_mgr.EngineDict: entries in iteration order
    cachedengine,  \* the value bound to __cachedengine__
    outputs,       \* the output windows the host's output manager tracks
    avail,         \* the host bindings that resolve in this run
    pc,            \* "lineN": source line N is about to execute; "done"; "halt"
    it,            \* position of the for-loop's iterator in EngineDict
    engine_id,     \* the loop variable
    stdout,        \* the print operations done so far
    fault,         \* line whose exception ended the script, 0 if none
    count,         \* count[l]: how many times line l has executed
    reads,         \* how many times __cachedengine__ has been read
    calls          \* how many times get_all_outputs has been called

vars == <<EngineDict, cachedengine, outputs, avail, pc, it, engine_id,
          stdout, fault, count, reads, calls>>

host == <<EngineDict, cachedengine, outputs, avail>>

----------------------------------------------------------------------------
(* Bounds of the model *)

MaxEngines == 2
MaxOutputs == 2

----------------------------------------------------------------------------
(* Host values *)

EngineIds == {"e1", "e2", "e3"}
Engines == {"ironpy277", "ironpy278"}
OutputHandles == {"<out1>", "<out2>"}

\* The names the script resolves in the host, in the order it resolves them.
Bindings == {"EXEC_PARAMS", "EngineDict", "__cachedengine__",
             "PyRevitOutputMgr", "get_all_outputs"}

\* Python values the host may bind to __cachedengine__: None, bools, ints,
\* strings and lists (the last two by their length).
PyNone == [tag |-> "none", n |-> 0]
PyBool(b) == [tag |-> "bool", n |-> IF b THEN 1 ELSE 0]
PyInt(n) == [tag |-> "int", n |-> n]
PyStr(len) == [tag |-> "str", n |-> len]
PyList(len) == [tag |-> "list", n |-> len]

PyValues == {PyNone, PyBool(FALSE), PyBool(TRUE), PyInt(0), PyInt(2),
             PyStr(0), PyStr(3), PyList(0), PyList(1)}

Injective(s) == \A i, j \in 1..Len(s) : i # j => s[i] # s[j]

SeqsUpTo(S, n) == UNION {[1..k -> S] : k \in 0..n}

\* A mapping has each key once; entries are listed in iteration order.
EngineDicts ==
    {d \in SeqsUpTo([key : EngineIds, engine : Engines], MaxEngines) :
        Injective([i \in 1..Len(d) |-> d[i].key])}

OutputLists == {s \in SeqsUpTo(OutputHandles, MaxOutputs) : Injective(s)}

----------------------------------------------------------------------------
(* Python operations the script uses *)

\* bool(v): the truth value the conditional expression on line 9 tests.
\* Faulty variant of Truthy: tests `is True` instead of truthiness.
Truthy_isTrue(v) == v = PyBool(TRUE)
Truthy(v) ==
    CASE v.tag = "none" -> FALSE
      [] v.tag = "bool" -> v.n = 1
      [] v.tag = "int"  -> v.n # 0
      [] v.tag = "str"  -> v.n > 0
      [] v.tag = "list" -> v.n > 0

\* Iterating a mapping yields its keys: the key at iterator position i.
\* Faulty variant of KeyAt: the iterator never leaves the first key.
KeyAt_first(d, i) == d[1].key
\* Faulty variant of KeyAt: iteration yields the (key, engine) entry.
KeyAt_pair(d, i) == "[" \o d[i].key \o ", " \o d[i].engine \o "]"
KeyAt(d, i) == d[i].key

\* 'Running in reused engine?\n{}'.format(arg)
format(arg) == "Running in reused engine?\n" \o arg

RECURSIVE join(_, _)
join(sep, s) ==
    IF s = <<>> THEN ""
    ELSE IF Len(s) = 1 THEN s[1]
    ELSE s[1] \o sep \o join(sep, Tail(s))

\* str() of a list: the reprs of its items, comma separated, in brackets.
str_list(l) == "[" \o join(", ", l) \o "]"

\* One print operation: the text followed by a newline.
\* Faulty variant of print_: text and newline are separate operations.
print_split(out, text) == Append(Append(out, text), "\n")
print_(out, text) == Append(out, text \o "\n")

\* PyRevitOutputMgr.get_all_outputs(): the list of active output windows.
get_all_outputs == outputs

Ran(l) == [count EXCEPT ![l] = @ + 1]

\* The line that follows line l when l completes without looping (used by
\* the faulty variant of Raise below).
FallThrough(l) ==
    CASE l = 4  -> "line5"
      [] l = 5  -> "line8"
      [] l = 8  -> "line12"
      [] l = 12 -> "line14"
      [] l = 14 -> "done"

\* An exception raised at line l: nothing catches it, the script ends there.
\* Faulty variant of Raise: the exception is caught and the script carries on.
Raise_swallow(l) ==
    /\ fault' = l
    /\ pc' = FallThrough(l)
    /\ count' = Ran(l)
    /\ UNCHANGED <<host, it, engine_id, stdout, reads, calls>>
Raise(l) ==
    /\ fault' = l
    /\ pc' = "halt"
    /\ count' = Ran(l)
    /\ UNCHANGED <<host, it, engine_id, stdout, reads, calls>>

----------------------------------------------------------------------------
(* The script *)

Lines == {4, 5, 6, 8, 12, 14}

Init ==
    /\ EngineDict \in EngineDicts
    /\ cachedengine \in PyValues
    /\ outputs \in OutputLists
    /\ avail \in SUBSET Bindings
    /\ pc = "line4"
    /\ it = 0
    /\ engine_id = "unbound"
    /\ stdout = <<>>
    /\ fault = 0
    /\ count = [l \in Lines |-> 0]
    /\ reads = 0
    /\ calls = 0

\* line 4: from pyrevit import EXEC_PARAMS
ImportExecParams ==
    /\ pc = "line4"
    /\ IF "EXEC_PARAMS" \in avail
       THEN /\ pc' = "line5"
            /\ count' = Ran(4)
            /\ UNCHANGED <<host, it, engine_id, stdout, fault, reads, calls>>
       ELSE Raise(4)

\* line 5: for engine_id in EXEC_PARAMS.engine_mgr.EngineDict:
\* Faulty variant of ForEngineId: the loop consumes the registry as it goes.
ForEngineId_pop ==
    /\ pc = "line5"
    /\ IF "EngineDict" \notin avail /\ it = 0
       THEN Raise(5)
       ELSE /\ count' = Ran(5)
            /\ IF EngineDict # <<>>
               THEN /\ engine_id' = Head(EngineDict).key
                    /\ EngineDict' = Tail(EngineDict)
                    /\ it' = it + 1
                    /\ pc' = "line6"
               ELSE /\ pc' = "line8"
                    /\ UNCHANGED <<EngineDict, it, engine_id>>
            /\ UNCHANGED <<cachedengine, outputs, avail, stdout, fault,
                           reads, calls>>
\* Faulty variant of ForEngineId: an empty registry is an error.
ForEngineId_nonempty ==
    /\ pc = "line5"
    /\ IF ("EngineDict" \notin avail \/ EngineDict = <<>>) /\ it = 0
       THEN Raise(5)
       ELSE /\ count' = Ran(5)
            /\ IF it < Len(EngineDict)
               THEN /\ engine_id' = KeyAt(EngineDict, it + 1)
                    /\ it' = it + 1
                    /\ pc' = "line6"
               ELSE /\ pc' = "line8"
                    /\ UNCHANGED <<it, engine_id>>
            /\ UNCHANGED <<host, stdout, fault, reads, calls>>
ForEngineId ==
    /\ pc = "line5"
    /\ IF "EngineDict" \notin avail /\ it = 0
       THEN Raise(5)
       ELSE /\ count' = Ran(5)
            /\ IF it < Len(EngineDict)
               THEN /\ engine_id' = KeyAt(EngineDict, it + 1)
                    /\ it' = it + 1
                    /\ pc' = "line6"
               ELSE /\ pc' = "line8"
                    /\ UNCHANGED <<it, engine_id>>
            /\ UNCHANGED <<host, stdout, fault, reads, calls>>

\* line 6: print(engine_id)
PrintEngineId ==
    /\ pc = "line6"
    /\ stdout' = print_(stdout, engine_id)
    /\ pc' = "line5"
    /\ count' = Ran(6)
    /\ UNCHANGED <<host, it, engine_id, fault, reads, calls>>

\* lines 8-9: print('Running in reused engine?\n{}'
\*                  .format('Yes' if __cachedengine__ else 'No'))
\* Faulty variant of PrintReuse: the script suspends after the message.
PrintReuse_blocks ==
    /\ pc = "line8"
    /\ IF "__cachedengine__" \in avail
       THEN /\ reads' = reads + 1
            /\ stdout' = print_(stdout,
                   format(IF Truthy(cachedengine) THEN "Yes" ELSE "No"))
            /\ pc' = "blocked"
            /\ count' = Ran(8)
            /\ UNCHANGED <<host, it, engine_id, fault, calls>>
       ELSE Raise(8)
\* Faulty variant of PrintReuse: get_all_outputs is called here as well.
PrintReuse_early ==
    /\ pc = "line8"
    /\ IF "__cachedengine__" \in avail
       THEN /\ reads' = reads + 1
            /\ calls' = calls + 1
            /\ stdout' = print_(stdout,
                   format(IF Truthy(cachedengine) THEN "Yes" ELSE "No"))
            /\ pc' = "line12"
            /\ count' = Ran(8)
            /\ UNCHANGED <<host, it, engine_id, fault>>
       ELSE Raise(8)
PrintReuse ==
    /\ pc = "line8"
    /\ IF "__cachedengine__" \in avail
       THEN /\ reads' = reads + 1
            /\ stdout' = print_(stdout,
                   format(IF Truthy(cachedengine) THEN "Yes" ELSE "No"))
            /\ pc' = "line12"
            /\ count' = Ran(8)
            /\ UNCHANGED <<host, it, engine_id, fault, calls>>
       ELSE Raise(8)

\* line 12: from pyrevit.output import PyRevitOutputMgr
ImportOutputMgr ==
    /\ pc = "line12"
    /\ IF "PyRevitOutputMgr" \in avail
       THEN /\ pc' = "line14"
            /\ count' = Ran(12)
            /\ UNCHANGED <<host, it, engine_id, stdout, fault, reads, calls>>
       ELSE Raise(12)

\* line 14: print PyRevitOutputMgr.get_all_outputs()
\* Faulty variant of PrintOutputs: the first output is dropped.
PrintOutputs_tail ==
    /\ pc = "line14"
    /\ IF "get_all_outputs" \in avail
       THEN /\ calls' = calls + 1
            /\ stdout' = print_(stdout,
                   str_list(SubSeq(get_all_outputs, 2, Len(get_all_outputs))))
            /\ pc' = "done"
            /\ count' = Ran(14)
            /\ UNCHANGED <<host, it, engine_id, fault, reads>>
       ELSE Raise(14)
PrintOutputs ==
    /\ pc = "line14"
    /\ IF "get_all_outputs" \in avail
       THEN /\ calls' = calls + 1
            /\ stdout' = print_(stdout, str_list(get_all_outputs))
            /\ pc' = "done"
            /\ count' = Ran(14)
            /\ UNCHANGED <<host, it, engine_id, fault, reads>>
       ELSE Raise(14)

Next ==
    \/ ImportExecParams
    \/ ForEngineId
    \/ PrintEngineId
    \/ PrintReuse
    \/ ImportOutputMgr
    \/ PrintOutputs

Spec == Init /\ [][Next]_vars

\* The interpreter runs the script synchronously: an enabled step is taken.
FairSpec == Spec /\ WF_vars(Next)

----------------------------------------------------------------------------
(* What a run is expected to print, stated from the host values alone *)

\* Python's falsy values among PyValues: None, False, 0, '' and [].
FalsyValues == {PyNone, PyBool(FALSE), PyInt(0), PyStr(0), PyList(0)}

NumEngines == Len(EngineDict)

KeyLines(ks) == [i \in 1..Len(ks) |-> ks[i] \o "\n"]

ReuseLine(truthy) ==
    "Running in reused engine?\n" \o (IF truthy THEN "Yes" ELSE "No") \o "\n"

DumpLine(os) == str_list(os) \o "\n"

ExpectedOutput(ks, truthy, os) ==
    KeyLines(ks) \o <<ReuseLine(truthy), DumpLine(os)>>

\* The host binding each line resolves (line 6 resolves none).
BindingAt(l) ==
    CASE l = 4  -> "EXEC_PARAMS"
      [] l = 5  -> "EngineDict"
      [] l = 8  -> "__cachedengine__"
      [] l = 12 -> "PyRevitOutputMgr"
      [] l = 14 -> "get_all_outputs"

LoopFinished == pc \in {"line8", "line12", "line14", "done"} \/ fault >= 8

----------------------------------------------------------------------------
(* Claims *)

\* C1: for a non-empty engine registry the printed identifiers are the
\* registry's keys in iteration order: the i-th print of the run is the i-th
\* key, each key is printed once, none is skipped, duplicated or reordered,
\* and nothing else is printed before the loop has finished.
C1_KeysPrintedInOrder ==
    NumEngines > 0 =>
        /\ count[6] <= NumEngines
        /\ Len(stdout) >= count[6]
        /\ \A i \in 1..count[6] : stdout[i] = EngineDict[i].key \o "\n"
        /\ pc \in {"line5", "line6"} => Len(stdout) = count[6]
        /\ LoopFinished => count[6] = NumEngines

C1_Witness ==
    /\ pc = "done"
    /\ NumEngines = 2
    /\ stdout[1] = "e2\n"
    /\ stdout[2] = "e1\n"

\* C2: once line 8 has printed, the reuse message is the header followed by
\* exactly "Yes" when __cachedengine__ is truthy and exactly "No" when it is
\* one of Python's falsy values, whatever value the host bound.
C2_ReuseMessage ==
    (count[8] = 1 /\ fault # 8) =>
        /\ Len(stdout) > NumEngines
        /\ stdout[NumEngines + 1] =
               IF cachedengine \in FalsyValues
               THEN "Running in reused engine?\nNo\n"
               ELSE "Running in reused engine?\nYes\n"

C2_Witness ==
    /\ pc = "done"
    /\ cachedengine = PyStr(3)
    /\ stdout[NumEngines + 1] = "Running in reused engine?\nYes\n"

\* C3: the last thing a completed run has printed is the textual
\* representation of the list get_all_outputs returned: every handle, in the
\* list's order, nothing added.
C3_DumpIsAccessorResult ==
    /\ pc = "done" => stdout[Len(stdout)] = str_list(outputs) \o "\n"
    /\ calls > 0 => stdout[Len(stdout)] = str_list(outputs) \o "\n"

C3_Witness ==
    /\ pc = "done"
    /\ Len(outputs) = 2
    /\ stdout[Len(stdout)] = "[<out2>, <out1>]\n"

\* C4: no step of the script changes the engine registry, the cache-hit
\* indicator or the output registry.
C4_HostUnchanged ==
    [][UNCHANGED <<EngineDict, cachedengine, outputs>>]_vars

C4_Witness ==
    /\ pc = "done"
    /\ NumEngines = 2
    /\ count[6] = 2
    /\ calls = 1

\* C5: when the binding a line resolves is missing, the script ends at that
\* line: the line ran once (no retry), no later line has run, and stdout is
\* exactly what the earlier lines printed; a line whose binding is missing
\* never completes.
C5_FaultTerminates ==
    /\ fault # 0 =>
        /\ pc = "halt"
        /\ BindingAt(fault) \notin avail
        /\ count[fault] = 1
        /\ \A l \in Lines : l > fault => count[l] = 0
        /\ stdout =
              IF fault <= 5 THEN <<>>
              ELSE IF fault = 8
                   THEN KeyLines([i \in 1..NumEngines |-> EngineDict[i].key])
                   ELSE KeyLines([i \in 1..NumEngines |-> EngineDict[i].key])
                            \o <<ReuseLine(cachedengine \notin FalsyValues)>>
    /\ \A l \in Lines \ {6} :
          (count[l] > 0 /\ BindingAt(l) \notin avail) => fault = l

C5_Witness ==
    /\ fault = 14
    /\ pc = "halt"
    /\ Len(stdout) = 3
    /\ avail = Bindings \ {"get_all_outputs"}

\* C6 as stated: a completed run has done exactly three print operations,
\* whatever the number of keys in the registry.
C6_ThreePrintOperations ==
    pc = "done" => Len(stdout) = 3

\* C6 amended: the script has three print statements, and a completed run
\* has done one print operation per registry key plus two; no run does more.
C6_PrintOperations ==
    /\ Len(stdout) <= NumEngines + 2
    /\ pc = "done" => Len(stdout) = NumEngines + 2

C6_Witness ==
    /\ pc = "done"
    /\ NumEngines = 2
    /\ Len(stdout) = 4

\* C7: with every host binding present the run reaches its end with the
\* output dump printed, and no step runs a second time: lines 4, 8, 12 and
\* 14 run at most once, the loop body at most once per key, the loop header
\* at most once per key plus the final test.
C7_RunsOnceToCompletion ==
    /\ [](/\ \A l \in {4, 8, 12, 14} : count[l] <= 1
          /\ count[6] <= NumEngines
          /\ count[5] <= NumEngines + 1)
    /\ (avail = Bindings) ~>
          (pc = "done" /\ count[14] = 1
              /\ stdout[Len(stdout)] = DumpLine(outputs))

C7_Witness ==
    /\ pc = "done"
    /\ avail = Bindings
    /\ count = [l \in Lines |->
                   CASE l = 5 -> 3 [] l = 6 -> 2 [] OTHER -> 1]

\* C8: __cachedengine__ is read at most once and get_all_outputs called at
\* most once, exactly once each in a completed run; the read happens only
\* after every engine identifier has been printed, and the call only after
\* the reuse message has been printed.
C8_ReadOnceCallOnce ==
    /\ reads <= 1
    /\ calls <= 1
    /\ pc = "done" => (reads = 1 /\ calls = 1)
    /\ reads = 1 => (count[6] = NumEngines /\ Len(stdout) >= NumEngines + 1)
    /\ LoopFinished \/ (reads = 0 /\ calls = 0)
    /\ calls = 1 =>
          /\ reads = 1
          /\ Len(stdout) = NumEngines + 2
          /\ stdout[NumEngines + 1] = ReuseLine(cachedengine \notin FalsyValues)

C8_Witness ==
    /\ pc = "done"
    /\ reads = 1
    /\ calls = 1
    /\ NumEngines = 1

\* C9: with an empty engine registry the loop body never runs, the loop
\* raises nothing when the registry resolves, and a completed run has
\* printed the reuse message followed by the output dump and nothing else.
C9_EmptyRegistry ==
    EngineDict = <<>> =>
        /\ count[6] = 0
        /\ fault = 5 => "EngineDict" \notin avail
        /\ avail = Bindings => fault = 0
        /\ pc = "done" =>
              stdout = <<ReuseLine(cachedengine \notin FalsyValues),
                         DumpLine(outputs)>>

C9_Witness ==
    /\ pc = "done"
    /\ EngineDict = <<>>
    /\ Len(stdout) = 2
    /\ fault = 0

\* C10: what a run prints is determined by the registry's key sequence, the
\* truthiness of the cache-hit indicator and the accessor's result: stdout
\* is always a prefix of ExpectedOutput of those three, and all of it in a
\* completed run; the engine instances do not appear in it.
C10_OutputFunctionOfHostValues ==
    LET expected ==
            ExpectedOutput([i \in 1..NumEngines |-> EngineDict[i].key],
                           cachedengine \notin FalsyValues, outputs)
    IN  /\ Len(stdout) <= Len(expected)
        /\ stdout = SubSeq(expected, 1, Len(stdout))
        /\ pc = "done" => stdout = expected

C10_Witness ==
    /\ pc = "done"
    /\ NumEngines = 2
    /\ EngineDict[1].engine # EngineDict[2].engine

====
